---- MODULE Spec2Model ----
(***************************************************************************)
(* Model of ffc/ir/uflacs/analysis/graph.py: the ExpressionGraph           *)
(* container, the unique post-order enumerator, build_graph_vertices,      *)
(* build_scalar_graph and rebuild_with_scalar_subexpressions.              *)
(***************************************************************************)
EXTENDS Integers, Sequences, FiniteSets, TLC

VARIABLES dag, skip, stm, e2i, stack, pushes, pc, G, raised, calls,
          V_symbols, W, ri, nout, wops, result

rebuildVars == <<V_symbols, W, ri, nout, wops, result>>

vars == <<dag, skip, stm, e2i, stack, pushes, pc, G, raised, calls,
          V_symbols, W, ri, nout, wops, result>>

(***************************************************************************)
(* Bounds of the model.                                                    *)
(***************************************************************************)
\* number of expression objects of the input DAG
NumNodes == 3
\* number of calls made on a free-standing ExpressionGraph
MaxCalls == 4
\* number of distinct keys offered to add_node / add_edge
NumKeys == 2
\* number of symbols the value numberer hands out
NumSymbols == 2
\* largest number of scalar components of one node
MaxComponents == 2

(***************************************************************************)
(* The input expression: a finite acyclic DAG of expression objects.       *)
(* Object n is dag[n]; its operands are objects with a smaller number,     *)
(* which is what makes the DAG acyclic.  The root (the argument            *)
(* `expression`) is object NumNodes.                                       *)
(***************************************************************************)
Nodes == 1..NumNodes

None == 0

TerminalKinds == {"Terminal", "MultiIndex", "Label"}

ModifierKinds == {"Modifier", "FreeModifier"}

Kinds == TerminalKinds \cup ModifierKinds \cup {"Operator"}

OperandLists(n) ==
    {<<a>> : a \in 1..(n - 1)} \cup {<<a, b>> : a \in 1..(n - 1), b \in 1..(n - 1)}

NodeChoices(n) ==
    {[kind |-> k, ops |-> <<>>] : k \in TerminalKinds}
        \cup {[kind |-> k, ops |-> o] : k \in Kinds \ TerminalKinds, o \in OperandLists(n)}

RECURSIVE DagsUpTo(_)
DagsUpTo(n) ==
    IF n = 0 THEN {<<>>}
    ELSE {Append(d, c) : d \in DagsUpTo(n - 1), c \in NodeChoices(n)}

DAGs == DagsUpTo(NumNodes)

expression == NumNodes

SkipSets == {{}, {"MultiIndex"}, {"Operator"}}

ufl_operands(d, e) == d[e].ops

ufl_is_terminal(d, e) == d[e].kind \in TerminalKinds

ufl_is_terminal_modifier(d, e) == d[e].kind \in ModifierKinds

ufl_free_indices_empty(d, e) == d[e].kind # "FreeModifier"

\* isinstance(expr, (ufl.classes.Label,) + skip)
excluded(d, sk, e) == d[e].kind \in ({"Label"} \cup sk)

(***************************************************************************)
(* class ExpressionGraph                                                   *)
(***************************************************************************)
EmptyGraph == [nodes |-> <<>>, out_edges |-> <<>>, in_edges |-> <<>>]

number_of_nodes(g) == Cardinality(DOMAIN g.nodes)

add_node(g, key, kwargs) ==
    [nodes |-> (key :> kwargs) @@ g.nodes,
     out_edges |-> (key :> <<>>) @@ g.out_edges,
     in_edges |-> (key :> <<>>) @@ g.in_edges]

\* add_edge with the second endpoint checked only after the first list is extended
add_edge_late_check(g, node1, node2) ==
    IF node1 \notin DOMAIN g.nodes THEN [G |-> g, raised |-> "KeyError"]
    ELSE LET g1 == [g EXCEPT !.out_edges[node1] = Append(@, node2)]
         IN  IF node2 \notin DOMAIN g.nodes THEN [G |-> g1, raised |-> "KeyError"]
             ELSE [G |-> [g1 EXCEPT !.in_edges[node2] = Append(@, node1)], raised |-> "none"]

\* add_edge that keeps a parallel edge out of the out-edge list
add_edge_dedup(g, node1, node2) ==
    IF node1 \notin DOMAIN g.nodes \/ node2 \notin DOMAIN g.nodes
    THEN [G |-> g, raised |-> "KeyError"]
    ELSE LET g1 == IF \E j \in 1..Len(g.out_edges[node1]) : g.out_edges[node1][j] = node2
                   THEN g
                   ELSE [g EXCEPT !.out_edges[node1] = Append(@, node2)]
         IN  [G |-> [g1 EXCEPT !.in_edges[node2] = Append(@, node1)], raised |-> "none"]

\* add_edge with = in place of +=
add_edge_overwrite(g, node1, node2) ==
    IF node1 \notin DOMAIN g.nodes \/ node2 \notin DOMAIN g.nodes
    THEN [G |-> g, raised |-> "KeyError"]
    ELSE LET g1 == [g EXCEPT !.out_edges[node1] = <<node2>>]
         IN  [G |-> [g1 EXCEPT !.in_edges[node2] = <<node1>>], raised |-> "none"]

add_edge(g, node1, node2) ==
    IF node1 \notin DOMAIN g.nodes \/ node2 \notin DOMAIN g.nodes
    THEN [G |-> g, raised |-> "KeyError"]
    ELSE LET g1 == [g EXCEPT !.out_edges[node1] = Append(@, node2)]
         IN  [G |-> [g1 EXCEPT !.in_edges[node2] = Append(@, node1)],
              raised |-> "none"]

(***************************************************************************)
(* _count_nodes_with_unique_post_traversal                                 *)
(***************************************************************************)
getops(d, flag, e) ==
    IF ufl_is_terminal(d, e)
        \/ (flag /\ ufl_is_terminal_modifier(d, e) /\ ufl_free_indices_empty(d, e))
    THEN <<>>
    ELSE ufl_operands(d, e)

\* the for loop without its `o not in e2i` test
FirstPending_no_dedup(ops, m) ==
    LET S == {i \in 1..Len(ops) : ops[i] # None}
    IN  IF S = {} THEN 0 ELSE CHOOSE i \in S : \A j \in S : i <= j

\* the position the for loop breaks at, 0 when it runs to its else branch
FirstPending(ops, m) ==
    LET S == {i \in 1..Len(ops) : ops[i] # None /\ ops[i] \notin DOMAIN m}
    IN  IF S = {} THEN 0 ELSE CHOOSE i \in S : \A j \in S : i <= j

InitialTraversal(d, flag) ==
    [e2i |-> <<>>,
     stack |-> <<[expr |-> expression, ops |-> getops(d, flag, expression)]>>,
     pushes |-> [n \in Nodes |-> IF n = expression THEN 1 ELSE 0]]

\* the break branch: push operand i of the top frame, blank it in the frame
descend(st, d, flag, i) ==
    LET top == Len(st.stack)
        o == st.stack[top].ops[i]
    IN  [e2i |-> st.e2i,
         stack |-> Append([st.stack EXCEPT ![top].ops[i] = None],
                          [expr |-> o, ops |-> getops(d, flag, o)]),
         pushes |-> [st.pushes EXCEPT ![o] = @ + 1]]

\* an else branch that pops the top frame only when it numbers its expression
finalize_keep_excluded(st, d, sk) ==
    LET top == Len(st.stack)
        expr == st.stack[top].expr
        count == Cardinality(DOMAIN st.e2i)
    IN  IF excluded(d, sk, expr) THEN st
        ELSE [e2i |-> (expr :> count) @@ st.e2i,
              stack |-> SubSeq(st.stack, 1, top - 1),
              pushes |-> st.pushes]

\* the else branch: number the top frame's expression and pop it
finalize(st, d, sk) ==
    LET top == Len(st.stack)
        expr == st.stack[top].expr
        count == Cardinality(DOMAIN st.e2i)
    IN  [e2i |-> IF excluded(d, sk, expr) THEN st.e2i ELSE (expr :> count) @@ st.e2i,
         stack |-> SubSeq(st.stack, 1, top - 1),
         pushes |-> st.pushes]

\* a loop body that numbers an expression when it first meets it (pre-order)
loop_body_preorder(st, d, sk, flag) ==
    LET top == Len(st.stack)
        expr == st.stack[top].expr
        i == FirstPending(st.stack[top].ops, st.e2i)
        numbered == IF excluded(d, sk, expr) \/ expr \in DOMAIN st.e2i THEN st.e2i
                    ELSE (expr :> Cardinality(DOMAIN st.e2i)) @@ st.e2i
    IN  IF i # 0 THEN descend([st EXCEPT !.e2i = numbered], d, flag, i)
        ELSE [e2i |-> numbered, stack |-> SubSeq(st.stack, 1, top - 1), pushes |-> st.pushes]

loop_body(st, d, sk, flag) ==
    LET i == FirstPending(st.stack[Len(st.stack)].ops, st.e2i)
    IN  IF i # 0 THEN descend(st, d, flag, i) ELSE finalize(st, d, sk)

RECURSIVE run_traversal(_, _, _, _)
run_traversal(st, d, sk, flag) ==
    IF st.stack = <<>> THEN st.e2i ELSE run_traversal(loop_body(st, d, sk, flag), d, sk, flag)

count_nodes_with_unique_post_traversal(d, sk, flag) ==
    run_traversal(InitialTraversal(d, flag), d, sk, flag)

(***************************************************************************)
(* build_graph_vertices                                                    *)
(***************************************************************************)
\* sorted(G.e2i): the expressions in their own order, not in index order
RECURSIVE sorted_by_key(_)
sorted_by_key(m) ==
    IF DOMAIN m = {} THEN <<>>
    ELSE LET least == CHOOSE v \in DOMAIN m : \A w \in DOMAIN m : v <= w
         IN  <<least>> \o sorted_by_key([w \in DOMAIN m \ {least} |-> m[w]])

\* sorted(G.e2i, key=G.e2i.get)
RECURSIVE sorted_by_index(_)
sorted_by_index(m) ==
    IF DOMAIN m = {} THEN <<>>
    ELSE LET least == CHOOSE v \in DOMAIN m :
                         \A w \in DOMAIN m : m[v] < m[w] \/ (m[v] = m[w] /\ v <= w)
         IN  <<least>> \o sorted_by_index([w \in DOMAIN m \ {least} |-> m[w]])

RECURSIVE add_nodes(_, _, _)
add_nodes(g, GV, n) ==
    IF n = 0 THEN g
    ELSE add_node(add_nodes(g, GV, n - 1), n - 1, [expression |-> GV[n], target |-> FALSE])

build_graph_vertices(m, root) ==
    LET GV == sorted_by_index(m)
        g == add_nodes(EmptyGraph, GV, Len(GV))
    IN  IF root \notin DOMAIN m \/ m[root] \notin DOMAIN g.nodes
        THEN [G |-> g, raised |-> "KeyError"]
        ELSE [G |-> [g EXCEPT !.nodes[m[root]].target = TRUE], raised |-> "none"]

(***************************************************************************)
(* build_scalar_graph, lines 88-104: the dependency edges                  *)
(***************************************************************************)
has_no_deps(d, e) ==
    ufl_is_terminal(d, e) \/ (ufl_is_terminal_modifier(d, e) /\ ufl_free_indices_empty(d, e))

\* V_deps[i]; the lookup G.e2i[o] of an operand without an index fails
deps_fail(d, m, e) ==
    ~has_no_deps(d, e) /\ \E j \in 1..Len(ufl_operands(d, e)) : ufl_operands(d, e)[j] \notin DOMAIN m

\* operand indices with repeated operands dropped
V_deps_unique(d, m, e) ==
    IF has_no_deps(d, e) THEN <<>>
    ELSE LET ops == ufl_operands(d, e)
             first == {j \in 1..Len(ops) : \A k \in 1..(j - 1) : ops[k] # ops[j]}
         IN  IF Cardinality(first) = Len(ops) THEN [j \in 1..Len(ops) |-> m[ops[j]]]
             ELSE <<m[ops[1]]>>

V_deps(d, m, e) ==
    IF has_no_deps(d, e) THEN <<>>
    ELSE [j \in 1..Len(ufl_operands(d, e)) |-> m[ufl_operands(d, e)[j]]]

RECURSIVE add_edges_of(_, _, _, _)
add_edges_of(r, i, edges, n) ==
    IF n = 0 THEN r
    ELSE LET before == add_edges_of(r, i, edges, n - 1)
         IN  IF before.raised # "none" THEN before ELSE add_edge(before.G, i, edges[n])

RECURSIVE add_all_edges(_, _, _, _)
add_all_edges(g, d, m, n) ==
    IF n = 0 THEN [G |-> g, raised |-> "none"]
    ELSE LET before == add_all_edges(g, d, m, n - 1)
             edges == V_deps(d, m, g.nodes[n - 1].expression)
         IN  IF before.raised # "none" THEN before
             ELSE add_edges_of(before, n - 1, edges, Len(edges))

compute_edges(g, d, m) ==
    IF \E i \in DOMAIN g.nodes : deps_fail(d, m, g.nodes[i].expression)
    THEN [G |-> g, raised |-> "KeyError"]
    ELSE add_all_edges(g, d, m, number_of_nodes(g))

(***************************************************************************)
(* Specification of the enumerator and the two graph builders.  The        *)
(* traversal runs one loop iteration per step; build_graph_vertices then   *)
(* builds the vertices, and for the call build_scalar_graph makes on the   *)
(* scalar expression (skip = (), skip_terminal_modifiers = True) the       *)
(* edges are computed.                                                     *)
(***************************************************************************)
Traversal == [e2i |-> e2i, stack |-> stack, pushes |-> pushes]

InitEnum ==
    /\ dag \in DAGs
    /\ skip \in SkipSets
    /\ stm \in BOOLEAN
    /\ e2i = InitialTraversal(dag, stm).e2i
    /\ stack = InitialTraversal(dag, stm).stack
    /\ pushes = InitialTraversal(dag, stm).pushes
    /\ pc = "traverse"
    /\ G = EmptyGraph
    /\ raised = "none"
    /\ calls = <<>>
    /\ V_symbols = <<>>
    /\ W = <<>>
    /\ ri = 0
    /\ nout = 0
    /\ wops = <<>>
    /\ result = <<>>

Descend ==
    /\ pc = "traverse"
    /\ stack # <<>>
    /\ FirstPending(stack[Len(stack)].ops, e2i) # 0
    /\ LET st == loop_body(Traversal, dag, skip, stm)
       IN  /\ e2i' = st.e2i
           /\ stack' = st.stack
           /\ pushes' = st.pushes
    /\ UNCHANGED <<dag, skip, stm, pc, G, raised, calls, rebuildVars>>

Finalize ==
    /\ pc = "traverse"
    /\ stack # <<>>
    /\ FirstPending(stack[Len(stack)].ops, e2i) = 0
    /\ LET st == loop_body(Traversal, dag, skip, stm)
       IN  /\ e2i' = st.e2i
           /\ stack' = st.stack
           /\ pushes' = st.pushes
    /\ UNCHANGED <<dag, skip, stm, pc, G, raised, calls, rebuildVars>>

BuildVertices ==
    /\ pc = "traverse"
    /\ stack = <<>>
    /\ LET r == build_graph_vertices(e2i, expression)
       IN  /\ G' = r.G
           /\ raised' = r.raised
           /\ pc' = IF r.raised = "none" THEN "built" ELSE "failed"
    /\ UNCHANGED <<dag, skip, stm, e2i, stack, pushes, calls, rebuildVars>>

ComputeEdges ==
    /\ pc = "built"
    /\ skip = {}
    /\ stm = TRUE
    /\ LET r == compute_edges(G, dag, e2i)
       IN  /\ G' = r.G
           /\ raised' = r.raised
           /\ pc' = IF r.raised = "none" THEN "final" ELSE "failed"
    /\ UNCHANGED <<dag, skip, stm, e2i, stack, pushes, calls, rebuildVars>>

NextEnum == Descend \/ Finalize \/ BuildVertices \/ ComputeEdges

SpecEnum == InitEnum /\ [][NextEnum]_vars

\* the while loop of lines 206-217 keeps running while the stack is not empty
FairSpecEnum == SpecEnum /\ WF_vars(Descend) /\ WF_vars(Finalize)

(***************************************************************************)
(* Specification of a free-standing ExpressionGraph: any sequence of       *)
(* add_node and add_edge calls.  calls is the history of the calls made.   *)
(***************************************************************************)
Keys == 0..(NumKeys - 1)

Payloads == {1, 2}

InitGraph ==
    /\ dag = <<>>
    /\ skip = {}
    /\ stm = FALSE
    /\ e2i = <<>>
    /\ stack = <<>>
    /\ pushes = <<>>
    /\ pc = "graph"
    /\ G = EmptyGraph
    /\ raised = "none"
    /\ calls = <<>>
    /\ V_symbols = <<>>
    /\ W = <<>>
    /\ ri = 0
    /\ nout = 0
    /\ wops = <<>>
    /\ result = <<>>

AddNode(key, payload) ==
    /\ pc = "graph"
    /\ Len(calls) < MaxCalls
    /\ G' = add_node(G, key, [expression |-> payload, target |-> FALSE])
    /\ raised' = "none"
    /\ calls' = Append(calls, [op |-> "add_node", a |-> key, b |-> payload,
                               existed |-> key \in DOMAIN G.nodes])
    /\ UNCHANGED <<dag, skip, stm, e2i, stack, pushes, pc, rebuildVars>>

AddEdge(node1, node2) ==
    /\ pc = "graph"
    /\ Len(calls) < MaxCalls
    /\ LET r == add_edge(G, node1, node2)
       IN  /\ G' = r.G
           /\ raised' = r.raised
    /\ calls' = Append(calls, [op |-> "add_edge", a |-> node1, b |-> node2,
                               existed |-> node1 \in DOMAIN G.nodes /\ node2 \in DOMAIN G.nodes])
    /\ UNCHANGED <<dag, skip, stm, e2i, stack, pushes, pc, rebuildVars>>

NextGraph ==
    \/ \E key \in Keys, payload \in Payloads : AddNode(key, payload)
    \/ \E node1 \in Keys, node2 \in Keys : AddEdge(node1, node2)

SpecGraph == InitGraph /\ [][NextGraph]_vars

(***************************************************************************)
(* rebuild_with_scalar_subexpressions.  The value numberer's symbols and   *)
(* the number of scalar expressions the reconstruction rule returns are    *)
(* inputs.  A scalar expression is named by the node and the position it   *)
(* was built for; an empty slot of W (None) is the empty tuple.            *)
(***************************************************************************)
Symbols == 0..(NumSymbols - 1)

SymbolSeqs == UNION {[1..n -> Symbols] : n \in 0..MaxComponents}

Unfilled == <<>>

RECURSIVE is_modified_terminal(_, _)
is_modified_terminal(d, e) ==
    IF ufl_is_terminal(d, e) THEN TRUE
    ELSE IF ufl_is_terminal_modifier(d, e) THEN is_modified_terminal(d, ufl_operands(d, e)[1])
    ELSE FALSE

\* all(W[s] is not None for s in vs)
all_filled(w, vs) == \A j \in 1..Len(vs) : w[vs[j]] # Unfilled

scalar(i, c) == <<i, c>>

\* ws of a modified terminal: one component per index of the shape sh (sh
\* components), or the terminal itself when the shape is empty (sh = 0)
terminal_components(i, sh) ==
    IF sh # 0 THEN [c \in 1..sh |-> scalar(i, c)] ELSE <<scalar(i, 1)>>

\* ws = reconstruct(expr, wops), a rule that returns n scalar expressions
reconstruct(i, n) == [c \in 1..n |-> scalar(i, c)]

\* the lookup G.e2i[vop] of an operand that is no MultiIndex and has no index
operand_unindexed(d, m, e) ==
    \E j \in 1..Len(ufl_operands(d, e)) :
        d[ufl_operands(d, e)[j]].kind # "MultiIndex" /\ ufl_operands(d, e)[j] \notin DOMAIN m

sops(d, m, Vs, e) ==
    [j \in 1..Len(ufl_operands(d, e)) |->
        IF d[ufl_operands(d, e)[j]].kind = "MultiIndex" THEN <<>>
        ELSE Vs[m[ufl_operands(d, e)[j]]]]

fetch_wops(w, so) == [j \in 1..Len(so) |-> [c \in 1..Len(so[j]) |-> w[so[j][c]]]]

\* the arity test with < in place of !=
arity_mismatch_short(vs, ws) == Len(vs) < Len(ws)

arity_mismatch(vs, ws) == Len(vs) # Len(ws)

\* the store loop without its `W[s] is None` test
RECURSIVE store_overwrite(_, _, _, _, _)
store_overwrite(w, handled, vs, ws, j) ==
    IF j > Len(vs) \/ j > Len(ws) THEN [W |-> w, raised |-> "none"]
    ELSE store_overwrite([w EXCEPT ![vs[j]] = ws[j]], handled \cup {vs[j]}, vs, ws, j + 1)

\* for s, w in zip(vs, ws), from position j on
RECURSIVE store(_, _, _, _, _)
store(w, handled, vs, ws, j) ==
    IF j > Len(vs) \/ j > Len(ws) THEN [W |-> w, raised |-> "none"]
    ELSE IF w[vs[j]] = Unfilled
         THEN store([w EXCEPT ![vs[j]] = ws[j]], handled \cup {vs[j]}, vs, ws, j + 1)
         ELSE IF vs[j] \in handled THEN store(w, handled, vs, ws, j + 1)
              ELSE [W |-> w, raised |-> "AssertionError"]

\* one iteration of the loop over G.nodes.items(); n is the shape of a modified
\* terminal or the number of scalar expressions the reconstruction rule returns
rebuild_node(w, d, m, g, Vs, i, n) ==
    LET expr == g.nodes[i].expression
        vs == Vs[i]
    IN  IF all_filled(w, vs)
        THEN [W |-> w, raised |-> "none", wops |-> <<>>, used |-> FALSE]
        ELSE IF is_modified_terminal(d, expr)
        THEN IF n = 0 /\ Len(vs) # 1
             THEN [W |-> w, raised |-> "RuntimeError", wops |-> <<>>, used |-> TRUE]
             ELSE LET r == store(w, {}, vs, terminal_components(i, n), 1)
                  IN  [W |-> r.W, raised |-> r.raised, wops |-> <<>>, used |-> TRUE]
        ELSE IF operand_unindexed(d, m, expr)
        THEN [W |-> w, raised |-> "KeyError", wops |-> <<>>, used |-> FALSE]
        ELSE LET wo == fetch_wops(w, sops(d, m, Vs, expr))
                 ws == reconstruct(i, n)
             IN  IF arity_mismatch(vs, ws)
                 THEN [W |-> w, raised |-> "RuntimeError", wops |-> wo, used |-> TRUE]
                 ELSE LET r == store(w, {}, vs, ws, 1)
                      IN  [W |-> r.W, raised |-> r.raised, wops |-> wo, used |-> TRUE]

(***************************************************************************)
(* Specification of the rebuild: the graph is the one build_scalar_graph   *)
(* builds first (skip = (MultiIndex,)), then one loop iteration per step,  *)
(* then the read of the result.                                            *)
(***************************************************************************)
InitRebuild ==
    /\ dag \in DAGs
    /\ skip = {"MultiIndex"}
    /\ stm = FALSE
    /\ e2i = count_nodes_with_unique_post_traversal(dag, skip, stm)
    /\ build_graph_vertices(e2i, expression).raised = "none"
    /\ G = build_graph_vertices(e2i, expression).G
    /\ V_symbols \in [0..(Cardinality(DOMAIN e2i) - 1) -> SymbolSeqs]
    /\ W = [s \in Symbols |-> Unfilled]
    /\ ri = 0
    /\ nout = 0
    /\ wops = <<>>
    /\ result = Unfilled
    /\ stack = <<>>
    /\ pushes = <<>>
    /\ pc = "rebuild"
    /\ raised = "none"
    /\ calls = <<>>

RebuildNode(n) ==
    /\ pc = "rebuild"
    /\ ri < number_of_nodes(G)
    /\ LET r == rebuild_node(W, dag, e2i, G, V_symbols, ri, n)
       IN  /\ r.used \/ n = 0
           /\ W' = r.W
           /\ raised' = r.raised
           /\ wops' = r.wops
           /\ nout' = n
           /\ ri' = IF r.raised = "none" THEN ri + 1 ELSE ri
           /\ pc' = IF r.raised = "none" THEN "rebuild" ELSE "failed"
    /\ UNCHANGED <<dag, skip, stm, e2i, stack, pushes, G, calls, V_symbols, result>>

\* vs = V_symbols[-1][0]; scalar_expression = W[vs]
RebuildReturn ==
    /\ pc = "rebuild"
    /\ ri = number_of_nodes(G)
    /\ LET last == V_symbols[number_of_nodes(G) - 1]
       IN  IF last = <<>>
           THEN /\ raised' = "IndexError"
                /\ pc' = "failed"
                /\ result' = result
           ELSE /\ raised' = raised
                /\ pc' = "rebuilt"
                /\ result' = W[last[1]]
    /\ UNCHANGED <<dag, skip, stm, e2i, stack, pushes, G, calls, V_symbols, W, ri, nout, wops>>

NextRebuild == (\E n \in 0..MaxComponents : RebuildNode(n)) \/ RebuildReturn

SpecRebuild == InitRebuild /\ [][NextRebuild]_vars

(***************************************************************************)
(* The rebuild over the symbols of a value numberer that gives each node   *)
(* one symbol per scalar component: a modified terminal of shape sh has as *)
(* many symbols as the shape has components, one when the shape is empty.  *)
(***************************************************************************)
one_symbol_per_component(d, g, Vs, i, sh) ==
    is_modified_terminal(d, g.nodes[i].expression) =>
        Len(Vs[i]) = (IF sh = 0 THEN 1 ELSE sh)

RebuildNumberedNode(n) ==
    /\ pc = "rebuild"
    /\ ri < number_of_nodes(G)
    /\ one_symbol_per_component(dag, G, V_symbols, ri, n)
    /\ RebuildNode(n)

NextRebuildNumbered == (\E n \in 0..MaxComponents : RebuildNumberedNode(n)) \/ RebuildReturn

SpecRebuildNumbered == InitRebuild /\ [][NextRebuildNumbered]_vars

(***************************************************************************)
(* Claims about the enumerator and the graph builders (SpecEnum).          *)
(***************************************************************************)
Range(q) == {q[j] : j \in 1..Len(q)}

Count(x, q) == Cardinality({j \in 1..Len(q) : q[j] = x})

\* the enumerator descends into p: p is no terminal and no opaque modified terminal
Descends(p) == dag[p].kind \notin TerminalKinds /\ ~(stm /\ dag[p].kind = "Modifier")

\* the kinds the enumerator gives no index
Unindexed == {"Label"} \cup skip

RECURSIVE ReachableFrom(_)
ReachableFrom(S) ==
    LET T == S \cup UNION {Range(dag[n].ops) : n \in S}
    IN  IF T = S THEN S ELSE ReachableFrom(T)

Reachable == ReachableFrom({expression})

NodesHolding(o) == {k \in DOMAIN G.nodes : G.nodes[k].expression = o}

SharedBy(o, p1, p2) ==
    /\ o \in Range(dag[p1].ops)
    /\ o \in Range(dag[p2].ops)
    /\ (p1 # p2 \/ Count(o, dag[p1].ops) >= 2)

\* C1: in the map the enumerator returns, an operand that has an index has a
\* strictly smaller index than every indexed parent the enumerator descends into.
C1_ChildrenBeforeParents ==
    stack = <<>> =>
        \A p \in DOMAIN e2i :
            Descends(p) =>
                \A j \in 1..Len(dag[p].ops) :
                    dag[p].ops[j] \in DOMAIN e2i => e2i[dag[p].ops[j]] < e2i[p]

C1_Witness ==
    /\ stack = <<>>
    /\ skip # {}
    /\ \E p \in DOMAIN e2i :
        /\ Descends(p)
        /\ p # expression
        /\ \E j \in 1..Len(dag[p].ops) : dag[p].ops[j] \in DOMAIN e2i
        /\ \E q \in DOMAIN e2i : q # p /\ Descends(q) /\ Range(dag[p].ops) \cap Range(dag[q].ops) # {}

\* C2, as stated: an expression that is an operand of two different parents (or
\* twice an operand of one) has an index, exactly one node holds it, and in the
\* final graph both parents' out-edge lists contain that index.
C2_Original ==
    pc \in {"built", "final"} =>
        \A o \in Reachable, p1 \in Reachable, p2 \in Reachable :
            SharedBy(o, p1, p2) =>
                /\ o \in DOMAIN e2i
                /\ Cardinality(NodesHolding(o)) = 1
                /\ pc = "final" =>
                    /\ p1 \in DOMAIN e2i /\ e2i[o] \in Range(G.out_edges[e2i[p1]])
                    /\ p2 \in DOMAIN e2i /\ e2i[o] \in Range(G.out_edges[e2i[p2]])

\* C2, amended: no expression is held by more than one node; and a shared operand
\* whose kind is neither Label nor skipped, of parents that have an index and that
\* the enumerator descends into, has an index, is held by exactly the node of that
\* index, and in the final graph both parents' out-edge lists contain that index.
C2_DedupSoundness ==
    pc \in {"built", "final"} =>
        /\ \A o \in Nodes : Cardinality(NodesHolding(o)) <= 1
        /\ \A o \in Reachable, p1 \in Reachable, p2 \in Reachable :
            ( /\ SharedBy(o, p1, p2)
              /\ dag[o].kind \notin Unindexed
              /\ p1 \in DOMAIN e2i /\ Descends(p1)
              /\ p2 \in DOMAIN e2i /\ Descends(p2) ) =>
                /\ o \in DOMAIN e2i
                /\ NodesHolding(o) = {e2i[o]}
                /\ pc = "final" =>
                    /\ e2i[o] \in Range(G.out_edges[e2i[p1]])
                    /\ e2i[o] \in Range(G.out_edges[e2i[p2]])

C2_Witness ==
    /\ pc = "final"
    /\ \E o \in Reachable, p1 \in Reachable, p2 \in Reachable :
        /\ p1 # p2
        /\ SharedBy(o, p1, p2)
        /\ p1 \in DOMAIN e2i /\ Descends(p1)
        /\ p2 \in DOMAIN e2i /\ Descends(p2)
        /\ NodesHolding(o) = {e2i[o]}
        /\ e2i[o] \in Range(G.out_edges[e2i[p1]]) \cap Range(G.out_edges[e2i[p2]])

\* C3, as stated: no expression is pushed onto the work stack more than once, and
\* when the traversal ends every expression it reached was pushed exactly once,
\* the skipped kinds and Label included.
C3_VisitedExactlyOnce ==
    /\ \A n \in Nodes : pushes[n] <= 1
    /\ stack = <<>> =>
        \A p \in Nodes : (pushes[p] >= 1 /\ Descends(p)) =>
            \A o \in Range(dag[p].ops) : pushes[o] = 1

\* C9, as stated: in the final graph a terminal or a terminal modifier without
\* free indices has no out-edges and every other node lists its operands' indices
\* in operand order with multiplicity; and the index lookup of an operand never fails.
C9_Original ==
    /\ pc = "final" =>
        \A i \in DOMAIN G.nodes :
            LET e == G.nodes[i].expression
            IN  IF dag[e].kind \in TerminalKinds \cup {"Modifier"}
                THEN G.out_edges[i] = <<>>
                ELSE /\ Len(G.out_edges[i]) = Len(dag[e].ops)
                     /\ \A j \in 1..Len(dag[e].ops) :
                            /\ dag[e].ops[j] \in DOMAIN e2i
                            /\ G.out_edges[i][j] = e2i[dag[e].ops[j]]
                            /\ G.nodes[G.out_edges[i][j]].expression = dag[e].ops[j]
    /\ (skip = {} /\ stm /\ dag[expression].kind # "Label") => pc # "failed"

\* C9, amended: the same out-edge lists in every graph build_scalar_graph returns;
\* the index lookup fails (KeyError, no graph returned) exactly when some node the
\* enumerator descended into has a Label operand, which has no index.
C9_OutEdges ==
    /\ pc = "final" =>
        /\ \A p \in DOMAIN e2i : Descends(p) => \A o \in Range(dag[p].ops) : dag[o].kind # "Label"
        /\ \A i \in DOMAIN G.nodes :
            LET e == G.nodes[i].expression
            IN  IF dag[e].kind \in TerminalKinds \cup {"Modifier"}
                THEN G.out_edges[i] = <<>>
                ELSE /\ Len(G.out_edges[i]) = Len(dag[e].ops)
                     /\ \A j \in 1..Len(dag[e].ops) :
                            /\ dag[e].ops[j] \in DOMAIN e2i
                            /\ G.out_edges[i][j] = e2i[dag[e].ops[j]]
                            /\ G.nodes[G.out_edges[i][j]].expression = dag[e].ops[j]
    /\ (pc = "failed" /\ skip = {} /\ stm /\ dag[expression].kind # "Label") =>
        \E p \in DOMAIN e2i : Descends(p) /\ \E o \in Range(dag[p].ops) : dag[o].kind = "Label"

C9_Witness ==
    /\ pc = "final"
    /\ \E i \in DOMAIN G.nodes :
        /\ Len(G.out_edges[i]) = 2
        /\ G.out_edges[i][1] = G.out_edges[i][2]
        /\ dag[G.nodes[i].expression].kind = "Operator"
    /\ \E k \in DOMAIN G.nodes :
        /\ dag[G.nodes[k].expression].kind = "Modifier"
        /\ dag[G.nodes[k].expression].ops # <<>>
        /\ G.out_edges[k] = <<>>

\* C10: for a root whose kind gets an index, build_graph_vertices does not fail,
\* its nodes are keyed 0..N-1, node e2i[v] holds v, exactly one node carries the
\* target flag, and that node is the last one, N-1, and holds the root.
C10_TargetIsLastNode ==
    /\ (stack = <<>> /\ dag[expression].kind \notin Unindexed) =>
        /\ expression \in DOMAIN e2i
        /\ (pc = "failed" => G.nodes[e2i[expression]].target)
    /\ pc \in {"built", "final"} =>
        LET N == Cardinality(DOMAIN e2i)
        IN  /\ DOMAIN G.nodes = 0..(N - 1)
            /\ \A v \in DOMAIN e2i : e2i[v] \in 0..(N - 1) /\ G.nodes[e2i[v]].expression = v
            /\ Cardinality({i \in DOMAIN G.nodes : G.nodes[i].target}) = 1
            /\ G.nodes[N - 1].target
            /\ G.nodes[N - 1].expression = expression

C10_Witness ==
    /\ pc = "built"
    /\ skip # {}
    /\ Cardinality(DOMAIN G.nodes) = 2
    /\ \E n \in Nodes : dag[n].kind \in skip /\ pushes[n] >= 1
    /\ G.nodes[1].target
    /\ G.nodes[1].expression = expression

(***************************************************************************)
(* Claims about the ExpressionGraph container (SpecGraph).                 *)
(***************************************************************************)
LastCall == calls[Len(calls)]

\* the targets of the successful add_edge(a, .) calls, in call order
RECURSIVE TargetsOf(_, _, _)
TargetsOf(log, a, n) ==
    IF n = 0 THEN <<>>
    ELSE LET c == log[n]
         IN  IF c.op = "add_edge" /\ c.existed /\ c.a = a
             THEN Append(TargetsOf(log, a, n - 1), c.b)
             ELSE TargetsOf(log, a, n - 1)

\* the sources of the successful add_edge(., b) calls, in call order
RECURSIVE SourcesOf(_, _, _)
SourcesOf(log, b, n) ==
    IF n = 0 THEN <<>>
    ELSE LET c == log[n]
         IN  IF c.op = "add_edge" /\ c.existed /\ c.b = b
             THEN Append(SourcesOf(log, b, n - 1), c.a)
             ELSE SourcesOf(log, b, n - 1)

NoKeyAddedTwice == \A n \in 1..Len(calls) : calls[n].op = "add_node" => ~calls[n].existed

\* C4: add_edge with an endpoint that is no key of nodes raises KeyError and
\* leaves nodes, out_edges and in_edges as they were.
C4_UnknownEndpoint ==
    [][(calls' # calls /\ calls'[Len(calls')].op = "add_edge"
            /\ (calls'[Len(calls')].a \notin DOMAIN G.nodes
                    \/ calls'[Len(calls')].b \notin DOMAIN G.nodes))
         => (raised' = "KeyError" /\ G' = G)]_vars

C4_Witness ==
    /\ calls # <<>>
    /\ LastCall.op = "add_edge"
    /\ raised = "KeyError"
    /\ LastCall.a \in DOMAIN G.nodes
    /\ LastCall.b \notin DOMAIN G.nodes
    /\ G.out_edges[LastCall.a] # <<>>

\* C5: when no key was added twice, the keys of the graph are the keys added,
\* out_edges[a] is the sequence of targets of the successful add_edge(a, .) calls
\* in call order, in_edges[b] the sequence of their sources, parallel edges
\* included, and b occurs in out_edges[a] as often as a occurs in in_edges[b].
C5_EdgesInCallOrder ==
    (pc = "graph" /\ NoKeyAddedTwice) =>
        /\ DOMAIN G.nodes = {calls[n].a : n \in {m \in 1..Len(calls) : calls[m].op = "add_node"}}
        /\ DOMAIN G.out_edges = DOMAIN G.nodes
        /\ DOMAIN G.in_edges = DOMAIN G.nodes
        /\ \A a \in DOMAIN G.nodes :
            /\ G.out_edges[a] = TargetsOf(calls, a, Len(calls))
            /\ G.in_edges[a] = SourcesOf(calls, a, Len(calls))
            /\ \A b \in DOMAIN G.nodes : Count(b, G.out_edges[a]) = Count(a, G.in_edges[b])
            /\ \E n \in 1..Len(calls) :
                calls[n].op = "add_node" /\ calls[n].a = a /\ G.nodes[a].expression = calls[n].b

C5_Witness ==
    /\ pc = "graph"
    /\ NoKeyAddedTwice
    /\ \E a \in DOMAIN G.nodes, b \in DOMAIN G.nodes :
        a # b /\ Count(b, G.out_edges[a]) = 2 /\ Count(a, G.in_edges[b]) = 2

KeysKept == \A k \in DOMAIN G.nodes : k \in DOMAIN G'.nodes

EdgesKept(k) ==
    \A x \in Keys :
        /\ Count(x, G.out_edges[k]) <= Count(x, G'.out_edges[k])
        /\ Count(x, G.in_edges[k]) <= Count(x, G'.in_edges[k])

\* C6, as stated: across every call, every key stays a key, and every edge stays
\* in the out-edge list of its source and in the in-edge list of its target.
C6_Original ==
    [][KeysKept /\ \A k \in DOMAIN G.nodes : EdgesKept(k)]_vars

\* C6, amended: every key stays a key; every edge stays in both lists across every
\* call except that add_node with a key that already exists empties that key's own
\* out-edge and in-edge lists (the other keys' lists are kept).
C6_NothingRemoved ==
    [][/\ KeysKept
       /\ \A k \in DOMAIN G.nodes :
            \/ EdgesKept(k)
            \/ /\ calls' # calls
               /\ calls'[Len(calls')].op = "add_node"
               /\ calls'[Len(calls')].a = k
               /\ G'.out_edges[k] = <<>>
               /\ G'.in_edges[k] = <<>>]_vars

C6_Witness ==
    /\ Len(calls) >= 3
    /\ NoKeyAddedTwice
    /\ \E n \in 1..(Len(calls) - 1) : calls[n].op = "add_edge" /\ calls[n].existed
    /\ \E a \in DOMAIN G.nodes : G.out_edges[a] # <<>>

(***************************************************************************)
(* Claims about rebuild_with_scalar_subexpressions (SpecRebuild).          *)
(***************************************************************************)
\* the loop is at node ri and reaches the reconstruction rule for it: the node
\* is no modified terminal, has an empty symbol slot, and its operands have indices
ReachesReconstruct ==
    /\ pc = "rebuild"
    /\ ri < number_of_nodes(G)
    /\ ~is_modified_terminal(dag, G.nodes[ri].expression)
    /\ \E j \in 1..Len(V_symbols[ri]) : W[V_symbols[ri][j]] = Unfilled
    /\ \A o \in Range(dag[G.nodes[ri].expression].ops) :
            dag[o].kind = "MultiIndex" \/ o \in DOMAIN e2i

\* C7: when the reconstruction rule of an operator node returns a number of
\* scalar expressions other than the number of the node's symbols, the rebuild
\* stops with RuntimeError, W is as it was before the node, and no result is
\* returned; when the node is stored, every one of its symbols has an expression.
C7_ArityInvariant ==
    [][ReachesReconstruct =>
          /\ nout' # Len(V_symbols[ri]) =>
                (raised' = "RuntimeError" /\ pc' = "failed" /\ W' = W /\ result' = Unfilled)
          /\ raised' = "none" =>
                (nout' = Len(V_symbols[ri])
                    /\ \A j \in 1..Len(V_symbols[ri]) : W'[V_symbols[ri][j]] # Unfilled)]_vars

C7_Witness ==
    /\ pc = "failed"
    /\ raised = "RuntimeError"
    /\ ~is_modified_terminal(dag, G.nodes[ri].expression)
    /\ nout # Len(V_symbols[ri])
    /\ nout >= 1
    /\ Len(V_symbols[ri]) >= 1
    /\ \E s \in Symbols : W[s] # Unfilled
    /\ \E s \in Symbols : W[s] = Unfilled
    /\ result = Unfilled

\* C8: a filled slot of W never changes; a node whose symbols are all filled is
\* passed over with W unchanged; and what is stored for a symbol s is the scalar
\* expression of the first position of the current node that carries s.
C8_WriteOnce ==
    [][/\ \A s \in Symbols : W[s] # Unfilled => W'[s] = W[s]
       /\ (pc = "rebuild" /\ ri < number_of_nodes(G) /\ all_filled(W, V_symbols[ri])) =>
            (W' = W /\ ri' = ri + 1 /\ raised' = "none")
       /\ \A s \in Symbols :
            (W[s] = Unfilled /\ W'[s] # Unfilled) =>
                /\ W'[s][1] = ri
                /\ W'[s][2] \in 1..Len(V_symbols[ri])
                /\ V_symbols[ri][W'[s][2]] = s
                /\ \A c \in 1..(W'[s][2] - 1) : V_symbols[ri][c] # s]_vars

C8_Witness ==
    /\ pc = "rebuild"
    /\ \E s \in Symbols :
        /\ W[s] # Unfilled
        /\ Count(s, V_symbols[W[s][1]]) = 2
        /\ \E i \in (W[s][1] + 1)..(ri - 1) :
            /\ s \in Range(V_symbols[i])
            /\ \A j \in 1..Len(V_symbols[i]) : W[V_symbols[i][j]][1] < i

\* C11: under a value numberer that gives each node one symbol per scalar
\* component, the nodes before the loop position all have every symbol filled,
\* and no empty slot is among the operand expressions handed to the
\* reconstruction rule.
C11_OperandsReady ==
    pc \in {"rebuild", "rebuilt", "failed"} =>
        /\ ri \in 0..number_of_nodes(G)
        /\ \A i \in 0..(ri - 1) : \A j \in 1..Len(V_symbols[i]) : W[V_symbols[i][j]] # Unfilled
        /\ \A j \in 1..Len(wops) : \A c \in 1..Len(wops[j]) : wops[j][c] # Unfilled

C11_Witness ==
    /\ pc = "rebuild"
    /\ ri = 3
    /\ dag[G.nodes[2].expression].kind = "Operator"
    /\ Len(wops) = 2
    /\ wops[1] # <<>>
    /\ wops[2] # <<>>
    /\ wops[1] # wops[2]

(***************************************************************************)
(* Termination of the enumerator (FairSpecEnum).                           *)
(***************************************************************************)
\* the expressions the traversal pushes: the root, and the operands of every
\* pushed expression the enumerator descends into
RECURSIVE DescendedFrom(_)
DescendedFrom(S) ==
    LET T == S \cup UNION {Range(dag[n].ops) : n \in {p \in S : Descends(p)}}
    IN  IF T = S THEN S ELSE DescendedFrom(T)

DescendedTo == DescendedFrom({expression})

\* C12: on every acyclic expression DAG, for every skip set and either flag, the
\* work stack eventually becomes empty, and whenever it is empty every expression
\* the traversal descends to whose kind is neither skipped nor Label has an index.
C12_Terminates ==
    /\ <>(stack = <<>>)
    /\ [](stack = <<>> =>
            \A n \in DescendedTo : dag[n].kind \notin Unindexed => n \in DOMAIN e2i)

C12_Witness ==
    /\ pc = "traverse"
    /\ stack = <<>>
    /\ skip # {}
    /\ \E n \in DescendedTo : dag[n].kind \in skip /\ pushes[n] >= 1
    /\ \E n \in Nodes : pushes[n] >= 2
    /\ Cardinality(DOMAIN e2i) >= 2

====
